---- MODULE Spec2Model ----
(***************************************************************************)
(* A model of jv-go-utils: the query builder of lib/qb                     *)
(* (simple_query_builder.go).                                              *)
(*                                                                         *)
(* Text is a sequence of tokens.  A token is a Go string that holds no     *)
(* '?' character, except the token "?" itself, which is one placeholder    *)
(* marker.  strings.Replace(s, "?", new, 1) therefore acts on the first    *)
(* "?" token.  Str flattens a token sequence to the string it denotes.     *)
(***************************************************************************)
EXTENDS Integers, Sequences, FiniteSets, TLC

VARIABLES tableName, tableAlias, action, columns, params, where, joins,
          orderBy, groupBy, having, limit, offset, sql, isManualSQL,
          ret, conn, nCalls, supplied, budget,
          collection, chainfunc, visited, returned,
          finishAt, ticker, timers, routines, pending, invoked, caller, times

builderVars == <<tableName, tableAlias, action, columns, params, where, joins,
                 orderBy, groupBy, having, limit, offset, sql, isManualSQL>>

vars == <<tableName, tableAlias, action, columns, params, where, joins,
          orderBy, groupBy, having, limit, offset, sql, isManualSQL,
          ret, conn, nCalls, supplied, budget,
          collection, chainfunc, visited, returned,
          finishAt, ticker, timers, routines, pending, invoked, caller, times>>

\* the state of one call of ChainForEach
chainVars == <<collection, chainfunc, visited, returned>>

\* a ticker, its goroutines and timers, and the thread that calls it
tickerVars ==
  <<finishAt, ticker, timers, routines, pending, invoked, caller, times>>

---------------------------------------------------------------------------
(* Bounds of the model *)

\* calls (configuration and terminal) made on the one builder
MaxCalls == 3
\* rows a query result holds at most
MaxRows == 2

---------------------------------------------------------------------------
(* Program constants *)

selectAction == "SELECT"
updateAction == "UPDATE"
insertAction == "INSERT"
deleteAction == "DELETE"

ErrNotFound == "not found"
ErrUnknownAction == "unknown action"
ErrTooManyArgs == "too many arguments"
\* Go's nil error
NoErr == "nil"

---------------------------------------------------------------------------
(* Strings *)

RECURSIVE Str(_)
Str(toks) == IF toks = <<>> THEN "" ELSE Head(toks) \o Str(Tail(toks))

Digit(d) ==
  CASE d = 0 -> "0" [] d = 1 -> "1" [] d = 2 -> "2" [] d = 3 -> "3"
    [] d = 4 -> "4" [] d = 5 -> "5" [] d = 6 -> "6" [] d = 7 -> "7"
    [] d = 8 -> "8" [] d = 9 -> "9"

\* strconv.Itoa of a non-negative int, as its decimal digits
RECURSIVE Itoa(_)
Itoa(n) == IF n < 10 THEN <<Digit(n)>> ELSE Itoa(n \div 10) \o <<Digit(n % 10)>>

\* strings.Join(elems, sep)
RECURSIVE StringsJoin(_, _)
StringsJoin(elems, sep) ==
  IF elems = <<>> THEN ""
  ELSE IF Len(elems) = 1 THEN elems[1]
  ELSE elems[1] \o sep \o StringsJoin(Tail(elems), sep)

\* as ReplaceFirst, with every "?" replaced (strings.Replace with n = -1)
RECURSIVE ReplaceEvery(_, _)
ReplaceEvery(text, new) ==
  IF text = <<>> THEN <<>>
  ELSE (IF Head(text) = "?" THEN new ELSE <<Head(text)>>)
         \o ReplaceEvery(Tail(text), new)

\* strings.Replace(text, "?", new, 1): the first "?" replaced, if there is one
RECURSIVE ReplaceFirst(_, _)
ReplaceFirst(text, new) ==
  IF text = <<>> THEN <<>>
  ELSE IF Head(text) = "?" THEN new \o Tail(text)
  ELSE <<Head(text)>> \o ReplaceFirst(Tail(text), new)

\* as Rewrite, with the markers left when the values run out replaced by
\* the placeholder of the last parameter
RECURSIVE RewriteFilled(_, _, _)
RewriteFilled(text, ps, args) ==
  IF args = <<>>
  THEN [text |-> ReplaceEvery(text, <<"$">> \o Itoa(Len(ps))), params |-> ps]
  ELSE RewriteFilled(ReplaceFirst(text, <<"$">> \o Itoa(Len(ps) + 1)),
                     Append(ps, Head(args)), Tail(args))

\* as Rewrite, with the loop left when the text has no marker left
RECURSIVE RewriteMatched(_, _, _)
RewriteMatched(text, ps, args) ==
  IF args = <<>> \/ \A i \in DOMAIN text : text[i] # "?"
  THEN [text |-> text, params |-> ps]
  ELSE RewriteMatched(ReplaceFirst(text, <<"$">> \o Itoa(Len(ps) + 1)),
                      Append(ps, Head(args)), Tail(args))

\* the loop of Where, Having and SQL: one Replace and one append per value
RECURSIVE Rewrite(_, _, _)
Rewrite(text, ps, args) ==
  IF args = <<>> THEN [text |-> text, params |-> ps]
  ELSE Rewrite(ReplaceFirst(text, <<"$">> \o Itoa(Len(ps) + 1)),
               Append(ps, Head(args)), Tail(args))

---------------------------------------------------------------------------
(* Inputs of the calls *)

Tables == {"users"}
Aliases == {"", "u"}
ColumnLists == {<<>>, <<"name">>, <<"name", "email">>}
ParamLists == {<<>>, <<"jv">>, <<"jv", "jv@example.com">>}
ColMaps == {"name" :> "jv", ("name" :> "jv") @@ ("email" :> "jv@example.com")}
WhereFrags == {<<"active">>, <<"age > ", "?">>, <<"a=", "?", " AND b=", "?">>}
HavingFrags == {<<"max_acc">>, <<"cnt > ", "?">>}
SQLTexts == {<<"SELECT 1">>, <<"DELETE FROM users WHERE id=", "?">>}
ArgLists == {<<>>, <<"18">>, <<"18", "jv">>}
JoinKinds == {"INNER", "LEFT", "RIGHT"}
JoinTables == {"profile"}
JoinAliases == {"p"}
JoinConds == {"u.id=p.user_id"}
OrderColumns == {"name"}
Directions == {"ASC"}
GroupLists == {<<"id">>}
Limits == {-1, 10}
Offsets == {-1, 5}
ReturnCols == {"id"}

\* the orders in which Go may range over the keys of map m
KeyOrders(m) ==
  {o \in [1..Cardinality(DOMAIN m) -> DOMAIN m] :
     \A i, j \in DOMAIN o : i # j => o[i] # o[j]}

---------------------------------------------------------------------------
(* What the last call returned, and the calls made on the connection *)

\* errors of the driver, as the connection or the cursor returns them
ErrQuery == "driver: query failed"
ErrColumns == "driver: columns failed"
ErrScan == "driver: scan failed"
ErrExec == "driver: exec failed"

\* the value the driver holds in column j of row i of a result
Cell(i, j) == <<i, j>>

\* Go's nil interface value
Nil == <<>>

(* What the connection does in one terminal call.  qerr: Query, QueryRow's *)
(* Scan or Exec fails.  cerr: rows.Columns fails.  cols: the result's      *)
(* column names; n: the rows of the result.  deliver: rows.Next is true    *)
(* for rows 1..deliver; deliver < n is a driver error that ends the        *)
(* iteration early.  scanFail: rows.Scan fails on that row (0: on none).   *)
Outcome(qerr, cerr, cols, n, deliver, scanFail) ==
  [qerr |-> qerr, cerr |-> cerr, cols |-> cols, n |-> n, deliver |-> deliver,
   scanFail |-> scanFail]

NoOutcome == Outcome(FALSE, FALSE, <<>>, 0, 0, 0)

ResultColumns == {<<"id", "name">>, <<"id", "id">>}

CursorOutcomes ==
  {Outcome(TRUE, FALSE, <<>>, 0, 0, 0), Outcome(FALSE, TRUE, <<>>, 0, 0, 0)}
    \cup {Outcome(FALSE, FALSE, c, n, d, s) :
            c \in ResultColumns, n \in 0..MaxRows, d \in 0..MaxRows,
            s \in 0..MaxRows}

QueryOutcomes ==
  {o \in CursorOutcomes :
     /\ o.deliver <= o.n
     /\ o.scanFail <= o.deliver
     /\ (o.scanFail = 0 \/ o.deliver = o.n)}

ExecOutcomes ==
  {Outcome(TRUE, FALSE, <<>>, 0, 0, 0), Outcome(FALSE, FALSE, <<>>, 0, 0, 0)}

QueryRowOutcomes ==
  {Outcome(TRUE, FALSE, <<>>, 0, 0, 0), Outcome(FALSE, FALSE, <<"id">>, 1, 1, 0)}

\* a *interface{}: nil, or a pointer to val
NoPtr == [ptr |-> FALSE, val |-> Nil]

PtrTo(v) == [ptr |-> TRUE, val |-> v]

(* The return of a call.  isNil: the returned map or slice is nil.         *)
(* cursor: "none" when Query gave no cursor, else "open" or "closed" as    *)
(* the cursor is when the call returns.  fetched: the rows Next gave.      *)
Ret(op, err, isNil, row, rows, id, cursor, fetched, db) ==
  [op |-> op, err |-> err, isNil |-> isNil, row |-> row, rows |-> rows,
   id |-> id, cursor |-> cursor, fetched |-> fetched, db |-> db]

\* the return of a configuration call: the builder itself, no error
CfgRet(op) == Ret(op, NoErr, FALSE, <<>>, <<>>, NoPtr, "none", 0, NoOutcome)

(* supplied is a history variable: for the filter, the having text and    *)
(* the raw text, the values passed to the call that wrote the current    *)
(* text; exact tells whether every such call so far passed exactly one   *)
(* value per marker; raw is the raw text as the last SQL call stored it. *)
NoneSupplied ==
  [where |-> <<>>, having |-> <<>>, sql |-> <<>>, exact |-> TRUE,
   raw |-> <<>>]

Markers(frag) == Cardinality({i \in DOMAIN frag : frag[i] = "?"})

Called(op) ==
  /\ nCalls < budget
  /\ nCalls' = nCalls + 1
  /\ UNCHANGED <<budget, chainVars, tickerVars>>
  /\ ret' = CfgRet(op)
  /\ conn' = conn

Configured(op) == Called(op) /\ supplied' = supplied

\* no ticker is used
NoTicker ==
  /\ finishAt = "future"
  /\ ticker = 0
  /\ timers = <<>>
  /\ routines = <<>>
  /\ pending = 0
  /\ invoked = <<>>
  /\ caller = [pc |-> "none", arg |-> "future"]
  /\ times = <<>>

\* ChainForEach is not used
NoChain ==
  /\ collection = <<>>
  /\ chainfunc = <<>>
  /\ visited = <<>>
  /\ returned = FALSE

(* A builder as New returns it.  budget is the number of calls the run     *)
(* makes on it.                                                            *)
New(calls) ==
  /\ tableName = ""
  /\ tableAlias = ""
  /\ action = ""
  /\ columns = <<>>
  /\ params = <<>>
  /\ where = <<>>
  /\ joins = <<>>
  /\ orderBy = <<>>
  /\ groupBy = ""
  /\ having = <<>>
  /\ limit = 0
  /\ offset = 0
  /\ sql = <<>>
  /\ isManualSQL = FALSE
  /\ ret = CfgRet("New")
  /\ conn = <<>>
  /\ nCalls = 0
  /\ supplied = NoneSupplied
  /\ budget = calls

Init == New(MaxCalls) /\ NoChain /\ NoTicker

---------------------------------------------------------------------------
(* Configuration calls *)

Alias(alias) ==
  /\ Configured("Alias")
  /\ tableAlias' = alias
  /\ UNCHANGED <<tableName, action, columns, params, where, joins, orderBy,
                 groupBy, having, limit, offset, sql, isManualSQL>>

\* as SetAction, with the columns and the parameters reset
SetActionReset(op, act, table) ==
  /\ Configured(op)
  /\ action' = act
  /\ tableName' = table
  /\ columns' = <<>>
  /\ params' = <<>>
  /\ UNCHANGED <<tableAlias, where, joins, orderBy, groupBy, having, limit,
                 offset, sql, isManualSQL>>

SetAction(op, act, table) ==
  /\ Configured(op)
  /\ action' = act
  /\ tableName' = table
  /\ UNCHANGED <<tableAlias, columns, params, where, joins, orderBy,
                 groupBy, having, limit, offset, sql, isManualSQL>>

Select(table) == SetAction("Select", selectAction, table)

Insert(table) == SetAction("Insert", insertAction, table)

Update(table) == SetAction("Update", updateAction, table)

Delete(table) == SetAction("Delete", deleteAction, table)

Columns(cols) ==
  /\ Configured("Columns")
  /\ columns' = cols
  /\ UNCHANGED <<tableName, tableAlias, action, params, where, joins, orderBy,
                 groupBy, having, limit, offset, sql, isManualSQL>>

Parameters(ps) ==
  /\ Configured("Parameters")
  /\ params' = ps
  /\ UNCHANGED <<tableName, tableAlias, action, columns, where, joins, orderBy,
                 groupBy, having, limit, offset, sql, isManualSQL>>

ColsWithParams(cols, order) ==
  /\ Configured("ColsWithParams")
  /\ columns' = columns \o order
  /\ params' = params \o [i \in DOMAIN order |-> cols[order[i]]]
  /\ UNCHANGED <<tableName, tableAlias, action, where, joins, orderBy,
                 groupBy, having, limit, offset, sql, isManualSQL>>

\* as Where, with the rewritten fragment added to the filter already stored
WhereAppend(frag, args) ==
  /\ Called("Where")
  /\ supplied' = [supplied EXCEPT !.where = args,
                                  !.exact = @ /\ Markers(frag) = Len(args)]
  /\ LET r == Rewrite(frag, params, args)
     IN /\ where' = where \o r.text
        /\ params' = r.params
  /\ UNCHANGED <<tableName, tableAlias, action, columns, joins, orderBy,
                 groupBy, having, limit, offset, sql, isManualSQL>>

Where(frag, args) ==
  /\ Called("Where")
  /\ supplied' = [supplied EXCEPT !.where = args,
                                  !.exact = @ /\ Markers(frag) = Len(args)]
  /\ LET r == Rewrite(frag, params, args)
     IN /\ where' = r.text
        /\ params' = r.params
  /\ UNCHANGED <<tableName, tableAlias, action, columns, joins, orderBy,
                 groupBy, having, limit, offset, sql, isManualSQL>>

Having(frag, args) ==
  /\ Called("Having")
  /\ supplied' = [supplied EXCEPT !.having = args,
                                  !.exact = @ /\ Markers(frag) = Len(args)]
  /\ LET r == Rewrite(<<"HAVING ">> \o frag, params, args)
     IN /\ having' = r.text
        /\ params' = r.params
  /\ UNCHANGED <<tableName, tableAlias, action, columns, where, joins, orderBy,
                 groupBy, limit, offset, sql, isManualSQL>>

AddJoin(op, clause) ==
  /\ Configured(op)
  /\ joins' = Append(joins, clause)
  /\ UNCHANGED <<tableName, tableAlias, action, columns, params, where, orderBy,
                 groupBy, having, limit, offset, sql, isManualSQL>>

Join(join, table, alias, condition) ==
  AddJoin("Join", join \o " " \o table \o " AS " \o alias \o " ON " \o condition)

InnerJoin(table, alias, condition) ==
  AddJoin("InnerJoin",
          "INNER JOIN " \o table \o " AS " \o alias \o " ON " \o condition)

LeftJoin(table, alias, condition) ==
  AddJoin("LeftJoin",
          "LEFT JOIN " \o table \o " AS " \o alias \o " ON " \o condition)

RightJoin(table, alias, condition) ==
  AddJoin("RightJoin",
          "RIGHT JOIN " \o table \o " AS " \o alias \o " ON " \o condition)

OrderBy(column, direction) ==
  /\ Configured("OrderBy")
  /\ orderBy' = Append(orderBy, "ORDER BY " \o column \o " " \o direction)
  /\ UNCHANGED <<tableName, tableAlias, action, columns, params, where, joins,
                 groupBy, having, limit, offset, sql, isManualSQL>>

GroupBy(args) ==
  /\ Configured("GroupBy")
  /\ groupBy' = "GROUP BY " \o StringsJoin(args, ", ")
  /\ UNCHANGED <<tableName, tableAlias, action, columns, params, where, joins,
                 orderBy, having, limit, offset, sql, isManualSQL>>

Limit(n) ==
  /\ Configured("Limit")
  /\ limit' = n
  /\ UNCHANGED <<tableName, tableAlias, action, columns, params, where, joins,
                 orderBy, groupBy, having, offset, sql, isManualSQL>>

Offset(n) ==
  /\ Configured("Offset")
  /\ offset' = n
  /\ UNCHANGED <<tableName, tableAlias, action, columns, params, where, joins,
                 orderBy, groupBy, having, limit, sql, isManualSQL>>

SQL(text, args) ==
  /\ Called("SQL")
  /\ isManualSQL' = TRUE
  /\ LET r == Rewrite(text, params, args)
     IN /\ sql' = r.text
        /\ params' = r.params
        /\ supplied' = [supplied EXCEPT !.sql = args,
                                        !.exact = @ /\ Markers(text) = Len(args),
                                        !.raw = r.text]
  /\ UNCHANGED <<tableName, tableAlias, action, columns, where, joins, orderBy,
                 groupBy, having, limit, offset>>

---------------------------------------------------------------------------
(* Assembly.  Each build operator gives the statement text the builder     *)
(* holds when the build returns, and the error it returns.                 *)

Built(text, err) == [sql |-> text, err |-> err]

WhereClause == IF Str(where) # "" THEN <<"\nWHERE ">> \o where ELSE <<>>

AsAlias == IF tableAlias # "" THEN <<" AS ", tableAlias>> ELSE <<>>

\* as SelectColumns, with * for an empty column list whatever the alias
SelectColumnsStar ==
  IF Len(columns) > 0 THEN <<" ", StringsJoin(columns, ", ")>> ELSE <<"*">>

SelectColumns ==
  IF Len(columns) > 0 THEN <<" ", StringsJoin(columns, ", ")>>
  ELSE IF tableAlias = "" THEN <<"*">>
  ELSE <<tableAlias, ".*">>

RECURSIVE JoinLines(_)
JoinLines(js) ==
  IF js = <<>> THEN <<>> ELSE <<"\n", Head(js), "\n">> \o JoinLines(Tail(js))

\* as buildSelect, with LIMIT before OFFSET
buildSelectLimitFirst ==
  Built(<<selectAction, "\n">>
          \o SelectColumns
          \o <<"\nFROM ", tableName>> \o AsAlias
          \o JoinLines(joins)
          \o WhereClause
          \o (IF groupBy # "" THEN <<"\n", groupBy>> ELSE <<>>)
          \o (IF Str(having) # "" THEN <<"\n">> \o having ELSE <<>>)
          \o (IF limit > 0 THEN <<"\nLIMIT ">> \o Itoa(limit) ELSE <<>>)
          \o (IF offset > 0 THEN <<"\nOFFSET ">> \o Itoa(offset) ELSE <<>>),
        NoErr)

buildSelect ==
  Built(<<selectAction, "\n">>
          \o SelectColumns
          \o <<"\nFROM ", tableName>> \o AsAlias
          \o JoinLines(joins)
          \o WhereClause
          \o (IF groupBy # "" THEN <<"\n", groupBy>> ELSE <<>>)
          \o (IF Str(having) # "" THEN <<"\n">> \o having ELSE <<>>)
          \o (IF offset > 0 THEN <<"\nOFFSET ">> \o Itoa(offset) ELSE <<>>)
          \o (IF limit > 0 THEN <<"\nLIMIT ">> \o Itoa(limit) ELSE <<>>),
        NoErr)

InsertColumns ==
  IF tableAlias = "" THEN columns
  ELSE [i \in DOMAIN columns |-> tableAlias \o "." \o columns[i]]

\* as InsertValues, with one placeholder per column
InsertValuesPerColumn == [i \in DOMAIN columns |-> "$" \o Str(Itoa(i))]

InsertValues == [i \in DOMAIN params |-> "$" \o Str(Itoa(i))]

buildInsert ==
  Built(<<insertAction, " INTO ", tableName>> \o AsAlias \o <<"\n">>
          \o <<"(", StringsJoin(InsertColumns, ", "), ")">>
          \o <<"\nVALUES\n">>
          \o <<"(", StringsJoin(InsertValues, ", "), ")">>,
        NoErr)

\* as UpdateSets, with no alias before the column
UpdateSetsBare == [i \in DOMAIN columns |-> columns[i] \o "=$" \o Str(Itoa(i))]

UpdateSets ==
  [i \in DOMAIN columns |->
     IF tableAlias = "" THEN columns[i] \o "=$" \o Str(Itoa(i))
     ELSE tableAlias \o "." \o columns[i] \o "=$" \o Str(Itoa(i))]

UpdateHead == <<"UPDATE ", tableName>> \o AsAlias \o <<"\nSET\n">>

buildUpdate ==
  IF Len(columns) > Len(params) THEN Built(UpdateHead, ErrTooManyArgs)
  ELSE Built(UpdateHead \o <<StringsJoin(UpdateSets, ",\n")>> \o WhereClause,
             NoErr)

buildDelete == Built(<<"DELETE FROM ", tableName>> \o WhereClause, NoErr)

\* as buildQuery, with a Select assembled when the action is unknown
buildQueryDefault ==
  CASE action = updateAction -> buildUpdate
    [] action = insertAction -> buildInsert
    [] action = deleteAction -> buildDelete
    [] OTHER -> buildSelect

buildQuery ==
  CASE action = selectAction -> buildSelect
    [] action = updateAction -> buildUpdate
    [] action = insertAction -> buildInsert
    [] action = deleteAction -> buildDelete
    [] OTHER -> Built(sql, ErrUnknownAction)

\* the first lines of every terminal call: assemble unless the text is manual
Prepared == IF isManualSQL THEN Built(sql, NoErr) ELSE buildQuery

---------------------------------------------------------------------------
(* Terminal calls *)

Terminals == {"Row", "Rows", "ExecReturnID", "Exec"}

\* a call on the connection: db.Query, db.QueryRow or db.Exec
ConnCall(fn, text) == [fn |-> fn, sql |-> Str(text), args |-> params]

\* the return of a terminal call whose assembly failed
BuildFailed(op, err) ==
  Ret(op, err, TRUE, <<>>, <<>>, NoPtr, "none", 0, NoOutcome)

\* the loop over the columns that fills the map of row i
RECURSIVE FillMap(_, _, _, _)
FillMap(m, cols, i, j) ==
  IF j > Len(cols) THEN m
  ELSE FillMap((cols[j] :> Cell(i, j)) @@ m, cols, i, j + 1)

RowMap(cols, i) == FillMap(<<>>, cols, i, 1)

\* as RowFetch, with an empty map and no error when there is no row
RowFetchEmpty(o) ==
  IF o.qerr THEN Ret("Row", ErrQuery, TRUE, <<>>, <<>>, NoPtr, "none", 0, o)
  ELSE IF o.cerr
    THEN Ret("Row", ErrColumns, TRUE, <<>>, <<>>, NoPtr, "open", 0, o)
  ELSE IF o.deliver >= 1 /\ o.scanFail = 1
    THEN Ret("Row", ErrScan, TRUE, <<>>, <<>>, NoPtr, "closed", 1, o)
  ELSE Ret("Row", NoErr, FALSE,
           IF o.deliver >= 1 THEN RowMap(o.cols, 1) ELSE <<>>, <<>>, NoPtr,
           "closed", IF o.deliver >= 1 THEN 1 ELSE 0, o)

\* Row, from db.Query on
RowFetch(o) ==
  IF o.qerr THEN Ret("Row", ErrQuery, TRUE, <<>>, <<>>, NoPtr, "none", 0, o)
  ELSE IF o.cerr
    THEN Ret("Row", ErrColumns, TRUE, <<>>, <<>>, NoPtr, "open", 0, o)
  ELSE IF o.deliver >= 1
    THEN IF o.scanFail = 1
         THEN Ret("Row", ErrScan, TRUE, <<>>, <<>>, NoPtr, "closed", 1, o)
         ELSE Ret("Row", NoErr, FALSE, RowMap(o.cols, 1), <<>>, NoPtr,
                  "closed", 1, o)
  ELSE Ret("Row", ErrNotFound, TRUE, <<>>, <<>>, NoPtr, "closed", 0, o)

\* the loop of Rows: i is the row rows.Next is asked for, acc the result
RECURSIVE RowsLoop(_, _, _)
RowsLoop(o, i, acc) ==
  IF i <= o.deliver
  THEN IF o.scanFail = i
       THEN Ret("Rows", ErrScan, TRUE, <<>>, <<>>, NoPtr, "closed", i, o)
       ELSE RowsLoop(o, i + 1, Append(acc, RowMap(o.cols, i)))
  ELSE Ret("Rows", NoErr, FALSE, <<>>, acc, NoPtr, "closed", i - 1, o)

\* as RowsFetch, with ErrNotFound when there is no row, as Row has it
RowsFetchNotFound(o) ==
  IF o.qerr THEN Ret("Rows", ErrQuery, TRUE, <<>>, <<>>, NoPtr, "none", 0, o)
  ELSE IF o.cerr
    THEN Ret("Rows", ErrColumns, TRUE, <<>>, <<>>, NoPtr, "open", 0, o)
  ELSE IF o.deliver = 0
    THEN Ret("Rows", ErrNotFound, TRUE, <<>>, <<>>, NoPtr, "closed", 0, o)
  ELSE RowsLoop(o, 1, <<>>)

\* Rows, from db.Query on
RowsFetch(o) ==
  IF o.qerr THEN Ret("Rows", ErrQuery, TRUE, <<>>, <<>>, NoPtr, "none", 0, o)
  ELSE IF o.cerr
    THEN Ret("Rows", ErrColumns, TRUE, <<>>, <<>>, NoPtr, "open", 0, o)
  ELSE RowsLoop(o, 1, <<>>)

Terminal(op) ==
  /\ nCalls < budget
  /\ nCalls' = nCalls + 1
  /\ UNCHANGED <<budget, chainVars, tickerVars>>
  /\ UNCHANGED <<tableName, tableAlias, action, columns, params, where, joins,
                 orderBy, groupBy, having, limit, offset, isManualSQL, supplied>>

Row(o) ==
  /\ Terminal("Row")
  /\ sql' = Prepared.sql
  /\ IF Prepared.err # NoErr
     THEN ret' = BuildFailed("Row", Prepared.err) /\ conn' = conn
     ELSE /\ conn' = Append(conn, ConnCall("Query", Prepared.sql))
          /\ ret' = RowFetch(o)

\* as Rows, with db.Query called a second time when it fails
RowsRetry(o) ==
  /\ Terminal("Rows")
  /\ sql' = Prepared.sql
  /\ IF Prepared.err # NoErr
     THEN ret' = BuildFailed("Rows", Prepared.err) /\ conn' = conn
     ELSE /\ conn' = IF o.qerr
                     THEN conn \o <<ConnCall("Query", Prepared.sql),
                                    ConnCall("Query", Prepared.sql)>>
                     ELSE Append(conn, ConnCall("Query", Prepared.sql))
          /\ ret' = RowsFetch(o)

Rows(o) ==
  /\ Terminal("Rows")
  /\ sql' = Prepared.sql
  /\ IF Prepared.err # NoErr
     THEN ret' = BuildFailed("Rows", Prepared.err) /\ conn' = conn
     ELSE /\ conn' = Append(conn, ConnCall("Query", Prepared.sql))
          /\ ret' = RowsFetch(o)

ExecReturnID(colID, o) ==
  /\ Terminal("ExecReturnID")
  /\ IF Prepared.err # NoErr
     THEN /\ sql' = Prepared.sql
          /\ ret' = BuildFailed("ExecReturnID", Prepared.err)
          /\ conn' = conn
     ELSE /\ sql' = Prepared.sql \o <<"\nRETURNING ", colID>>
          /\ conn' = Append(conn, ConnCall("QueryRow", sql'))
          /\ ret' = Ret("ExecReturnID", IF o.qerr THEN ErrScan ELSE NoErr,
                        FALSE, <<>>, <<>>,
                        PtrTo(IF o.qerr THEN Nil ELSE Cell(1, 1)),
                        "none", 0, o)

\* as Exec, with db.Exec called whether or not the assembly failed
ExecUnchecked(o) ==
  /\ Terminal("Exec")
  /\ sql' = Prepared.sql
  /\ conn' = Append(conn, ConnCall("Exec", Prepared.sql))
  /\ ret' = IF Prepared.err # NoErr THEN BuildFailed("Exec", Prepared.err)
            ELSE Ret("Exec", IF o.qerr THEN ErrExec ELSE NoErr, FALSE,
                     <<>>, <<>>, NoPtr, "none", 0, o)

Exec(o) ==
  /\ Terminal("Exec")
  /\ sql' = Prepared.sql
  /\ IF Prepared.err # NoErr
     THEN ret' = BuildFailed("Exec", Prepared.err) /\ conn' = conn
     ELSE /\ conn' = Append(conn, ConnCall("Exec", Prepared.sql))
          /\ ret' = Ret("Exec", IF o.qerr THEN ErrExec ELSE NoErr, FALSE,
                        <<>>, <<>>, NoPtr, "none", 0, o)

---------------------------------------------------------------------------
(* The builder: any calls, in any order *)

Next ==
  \/ \E a \in Aliases : Alias(a)
  \/ \E t \in Tables : Select(t)
  \/ \E t \in Tables : Insert(t)
  \/ \E t \in Tables : Update(t)
  \/ \E t \in Tables : Delete(t)
  \/ \E c \in ColumnLists : Columns(c)
  \/ \E p \in ParamLists : Parameters(p)
  \/ \E m \in ColMaps : \E o \in KeyOrders(m) : ColsWithParams(m, o)
  \/ \E f \in WhereFrags, a \in ArgLists : Where(f, a)
  \/ \E f \in HavingFrags, a \in ArgLists : Having(f, a)
  \/ \E k \in JoinKinds, t \in JoinTables, a \in JoinAliases, c \in JoinConds :
       Join(k, t, a, c)
  \/ \E t \in JoinTables, a \in JoinAliases, c \in JoinConds : InnerJoin(t, a, c)
  \/ \E t \in JoinTables, a \in JoinAliases, c \in JoinConds : LeftJoin(t, a, c)
  \/ \E t \in JoinTables, a \in JoinAliases, c \in JoinConds : RightJoin(t, a, c)
  \/ \E c \in OrderColumns, d \in Directions : OrderBy(c, d)
  \/ \E g \in GroupLists : GroupBy(g)
  \/ \E n \in Limits : Limit(n)
  \/ \E n \in Offsets : Offset(n)
  \/ \E t \in SQLTexts, a \in ArgLists : SQL(t, a)
  \/ \E o \in QueryOutcomes : Row(o)
  \/ \E o \in QueryOutcomes : Rows(o)
  \/ \E c \in ReturnCols, o \in QueryRowOutcomes : ExecReturnID(c, o)
  \/ \E o \in ExecOutcomes : Exec(o)

Spec == Init /\ [][Next]_vars

---------------------------------------------------------------------------
(* The builder used for an Update: the calls of the documented chain       *)
(* Update(t).Columns(..).Parameters(..).Where(..) and Alias, in any order  *)
(* and number, and Exec.                                                   *)

MaxUpdateCalls == 5

InitUpdate == New(MaxUpdateCalls) /\ NoChain /\ NoTicker

NextUpdate ==
  \/ \E t \in Tables : Update(t)
  \/ \E a \in Aliases : Alias(a)
  \/ \E c \in ColumnLists : Columns(c)
  \/ \E p \in ParamLists : Parameters(p)
  \/ \E f \in WhereFrags, a \in ArgLists : Where(f, a)
  \/ \E o \in ExecOutcomes : Exec(o)

SpecUpdate == InitUpdate /\ [][NextUpdate]_vars

---------------------------------------------------------------------------
(* The builder used for a Select: one call of every kind that adds a part  *)
(* to the statement, in any order and number, and Rows on a connection     *)
(* whose query fails or has no rows.                                       *)

MaxSelectCalls == 8

InitSelect == New(MaxSelectCalls) /\ NoChain /\ NoTicker

NextSelect ==
  \/ Select("users")
  \/ Alias("u")
  \/ InnerJoin("profile", "p", "u.id=p.user_id")
  \/ Where(<<"age > ", "?">>, <<"18">>)
  \/ GroupBy(<<"id">>)
  \/ Having(<<"cnt > ", "?">>, <<"18">>)
  \/ \E n \in Offsets : Offset(n)
  \/ \E n \in Limits : Limit(n)
  \/ \E o \in {q \in QueryOutcomes : q.n = 0 /\ ~q.cerr} : Rows(o)

SpecSelect == InitSelect /\ [][NextSelect]_vars

---------------------------------------------------------------------------
(* ChainForEach.  chainfunc[i] is what the callback returns for the i-th   *)
(* element; visited lists the positions and elements the callback was      *)
(* applied to, in the order of the calls.                                  *)

MaxLen == 3

Elements == {"a", "b"}

Collections ==
  UNION {[1..n -> Elements] : n \in 0..MaxLen}

\* the loop of ChainForEach from position i on, seen the calls made so far
RECURSIVE ForEachFrom(_, _, _, _)
ForEachFrom(coll, f, i, seen) ==
  IF i > Len(coll) THEN seen
  ELSE IF f[i] THEN Append(seen, <<i, coll[i]>>)
  ELSE ForEachFrom(coll, f, i + 1, Append(seen, <<i, coll[i]>>))

InitChain ==
  /\ New(0)
  /\ NoTicker
  /\ collection \in Collections
  /\ chainfunc \in [1..Len(collection) -> BOOLEAN]
  /\ visited = <<>>
  /\ returned = FALSE

ChainForEach ==
  /\ ~returned
  /\ visited' = ForEachFrom(collection, chainfunc, 1, <<>>)
  /\ returned' = TRUE
  /\ UNCHANGED <<builderVars, ret, conn, nCalls, supplied, budget>>
  /\ UNCHANGED <<collection, chainfunc, tickerVars>>

SpecChain == InitChain /\ [][ChainForEach]_vars

---------------------------------------------------------------------------
(* The ticker.  Time is not measured: a finish time is "past" or "future"  *)
(* when it is compared with time.Now, and a running timer ticks at some    *)
(* later moment.  ticker is the field t.ticker: 0 for nil, else the number *)
(* of a timer in timers.  routines are the goroutines Start has begun,     *)
(* each with its position and the timer whose channel it waits on.         *)
(* pending counts the "go onFinish(id)" not yet run.  invoked lists the    *)
(* invocations of the callback, each as the number of Reset calls made     *)
(* before it.  caller is the thread that calls Start and then Reset, with  *)
(* its position inside the call; times lists the finish times given to New *)
(* and Reset.                                                              *)

MaxResets == 2

FinishTimes == {"past", "future"}

\* the goroutines Start can have begun: one per call of Start
Routines == 1..(MaxResets + 1)

ResetsMade == Len(times) - 1

builderIdle == New(0) /\ NoChain

\* New(id, finishAt, onFinish)
InitTicker ==
  /\ builderIdle
  /\ finishAt \in FinishTimes
  /\ times = <<finishAt>>
  /\ ticker = 0
  /\ timers = <<>>
  /\ routines = <<>>
  /\ pending = 0
  /\ invoked = <<>>
  /\ caller = [pc |-> "new", arg |-> finishAt]

\* what a ticker action leaves alone outside the ticker
TickerFrame ==
  UNCHANGED <<builderVars, ret, conn, nCalls, supplied, budget, chainVars>>

\* "go func() {...}()" of Start: one more goroutine, at its first statement
Spawned == Append(routines, [pc |-> "now", ch |-> 0])

\* one more invocation of the callback
Invoked == Append(invoked, ResetsMade)

\* the caller calls Start
Start ==
  /\ caller.pc = "new"
  /\ caller' = [caller EXCEPT !.pc = "idle"]
  /\ routines' = Spawned
  /\ UNCHANGED <<finishAt, ticker, timers, pending, invoked, times>>
  /\ TickerFrame

\* the caller enters Reset(f)
Reset(f) ==
  /\ caller.pc = "idle"
  /\ ResetsMade < MaxResets
  /\ caller' = [pc |-> "write", arg |-> f]
  /\ times' = Append(times, f)
  /\ UNCHANGED <<finishAt, ticker, timers, routines, pending, invoked>>
  /\ TickerFrame

\* Reset: t.finishAt = finishAt, and the comparison with now
ResetWrite ==
  /\ caller.pc = "write"
  /\ finishAt' = caller.arg
  /\ IF caller.arg = "past"
     THEN pending' = pending + 1 /\ caller' = [caller EXCEPT !.pc = "idle"]
     ELSE pending' = pending /\ caller' = [caller EXCEPT !.pc = "check"]
  /\ UNCHANGED <<ticker, timers, routines, invoked, times>>
  /\ TickerFrame

\* Reset: if t.ticker != nil, else t.Start()
ResetCheck ==
  /\ caller.pc = "check"
  /\ IF ticker # 0
     THEN caller' = [caller EXCEPT !.pc = "reset"] /\ routines' = routines
     ELSE caller' = [caller EXCEPT !.pc = "idle"] /\ routines' = Spawned
  /\ UNCHANGED <<finishAt, ticker, timers, pending, invoked, times>>
  /\ TickerFrame

(* Reset: t.ticker.Reset(d).  The timer runs again; a tick already in its  *)
(* channel stays or is dropped, as the Go release has it.                  *)
ResetTimer ==
  /\ caller.pc = "reset"
  /\ \E drop \in BOOLEAN :
       timers' = [timers EXCEPT ![ticker] =
                    [running |-> TRUE, tick |-> @.tick /\ ~drop]]
  /\ caller' = [caller EXCEPT !.pc = "idle"]
  /\ UNCHANGED <<finishAt, ticker, routines, pending, invoked, times>>
  /\ TickerFrame

(* The goroutine reads t.finishAt and compares it with now.  A read while  *)
(* Reset is about to write the field is a data race: it gives either.      *)
RoutineNow(g) ==
  /\ g \in DOMAIN routines
  /\ routines[g].pc = "now"
  /\ \E read \in (IF caller.pc = "write" THEN FinishTimes ELSE {finishAt}) :
       IF read = "past"
       THEN /\ pending' = pending + 1
            /\ routines' = [routines EXCEPT ![g].pc = "done"]
       ELSE /\ pending' = pending
            /\ routines' = [routines EXCEPT ![g].pc = "new"]
  /\ UNCHANGED <<finishAt, ticker, timers, invoked, caller, times>>
  /\ TickerFrame

\* t.ticker = time.NewTicker(d)
RoutineNewTicker(g) ==
  /\ g \in DOMAIN routines
  /\ routines[g].pc = "new"
  /\ timers' = Append(timers, [running |-> TRUE, tick |-> FALSE])
  /\ ticker' = Len(timers')
  /\ routines' = [routines EXCEPT ![g].pc = "chan"]
  /\ UNCHANGED <<finishAt, pending, invoked, caller, times>>
  /\ TickerFrame

\* t.ticker.C is read: the channel of the timer the field holds now
RoutineChan(g) ==
  /\ g \in DOMAIN routines
  /\ routines[g].pc = "chan"
  /\ routines' = [routines EXCEPT ![g] = [pc |-> "recv", ch |-> ticker]]
  /\ UNCHANGED <<finishAt, ticker, timers, pending, invoked, caller, times>>
  /\ TickerFrame

\* <-t.ticker.C
RoutineReceive(g) ==
  /\ g \in DOMAIN routines
  /\ routines[g].pc = "recv"
  /\ timers[routines[g].ch].tick
  /\ timers' = [timers EXCEPT ![routines[g].ch].tick = FALSE]
  /\ routines' = [routines EXCEPT ![g].pc = "call"]
  /\ UNCHANGED <<finishAt, ticker, pending, invoked, caller, times>>
  /\ TickerFrame

\* t.onFinish(t.id)
RoutineFinish(g) ==
  /\ g \in DOMAIN routines
  /\ routines[g].pc = "call"
  /\ invoked' = Invoked
  /\ routines' = [routines EXCEPT ![g].pc = "stop"]
  /\ UNCHANGED <<finishAt, ticker, timers, pending, caller, times>>
  /\ TickerFrame

(* The deferred t.ticker.Stop(): it stops the timer the field holds now;   *)
(* a tick in its channel stays or is dropped, as the Go release has it.    *)
RoutineStop(g) ==
  /\ g \in DOMAIN routines
  /\ routines[g].pc = "stop"
  /\ \E drop \in BOOLEAN :
       timers' = [timers EXCEPT ![ticker] =
                    [running |-> FALSE, tick |-> @.tick /\ ~drop]]
  /\ routines' = [routines EXCEPT ![g].pc = "done"]
  /\ UNCHANGED <<finishAt, ticker, pending, invoked, caller, times>>
  /\ TickerFrame

\* a running timer sends a tick; its channel holds one
Tick(k) ==
  /\ k \in DOMAIN timers
  /\ timers[k].running
  /\ ~timers[k].tick
  /\ timers' = [timers EXCEPT ![k].tick = TRUE]
  /\ UNCHANGED <<finishAt, ticker, routines, pending, invoked, caller, times>>
  /\ TickerFrame

\* a "go t.onFinish(t.id)" runs
GoFinish ==
  /\ pending > 0
  /\ pending' = pending - 1
  /\ invoked' = Invoked
  /\ UNCHANGED <<finishAt, ticker, timers, routines, caller, times>>
  /\ TickerFrame

NextTicker ==
  \/ Start
  \/ \E f \in FinishTimes : Reset(f)
  \/ ResetWrite
  \/ ResetCheck
  \/ ResetTimer
  \/ \E g \in Routines : RoutineNow(g)
  \/ \E g \in Routines : RoutineNewTicker(g)
  \/ \E g \in Routines : RoutineChan(g)
  \/ \E g \in Routines : RoutineReceive(g)
  \/ \E g \in Routines : RoutineFinish(g)
  \/ \E g \in Routines : RoutineStop(g)
  \/ \E k \in Routines : Tick(k)
  \/ GoFinish

(* A call of Reset that was entered runs to its end, every goroutine that  *)
(* can run does, and a running timer ticks; whether and when the caller    *)
(* calls Start or Reset is left open.                                      *)
FairTicker ==
  /\ WF_vars(ResetWrite)
  /\ WF_vars(ResetCheck)
  /\ WF_vars(ResetTimer)
  /\ WF_vars(GoFinish)
  /\ \A g \in Routines :
       /\ WF_vars(RoutineNow(g))
       /\ WF_vars(RoutineNewTicker(g))
       /\ WF_vars(RoutineChan(g))
       /\ WF_vars(RoutineReceive(g))
       /\ WF_vars(RoutineFinish(g))
       /\ WF_vars(RoutineStop(g))
       /\ WF_vars(Tick(g))

SpecTicker == InitTicker /\ [][NextTicker]_vars /\ FairTicker

---------------------------------------------------------------------------
(* Reading a text back *)

\* the markers among the first i tokens of frag
MarkersUpTo(frag, i) == Cardinality({j \in 1..i : frag[j] = "?"})

\* frag with its j-th marker, from the left, written as $(c+j)
Numbered(frag, c) ==
  Str([i \in DOMAIN frag |->
         IF frag[i] = "?" THEN "$" \o Str(Itoa(c + MarkersUpTo(frag, i)))
         ELSE frag[i]])

Digits == {"0", "1", "2", "3", "4", "5", "6", "7", "8", "9"}

DigitValue(t) == CHOOSE d \in 0..9 : Digit(d) = t

RECURSIVE ReadInt(_, _, _)
ReadInt(text, i, acc) ==
  IF i <= Len(text) /\ text[i] \in Digits
  THEN ReadInt(text, i + 1, acc * 10 + DigitValue(text[i]))
  ELSE acc

\* the numbers N of the $N of text, from left to right
RECURSIVE RefsFrom(_, _)
RefsFrom(text, i) ==
  IF i > Len(text) THEN <<>>
  ELSE IF text[i] = "$" THEN <<ReadInt(text, i + 1, 0)>> \o RefsFrom(text, i + 1)
  ELSE RefsFrom(text, i + 1)

Refs(text) == RefsFrom(text, 1)

\* a step that is a call of op
Step(op) == nCalls' = nCalls + 1 /\ ret'.op = op

TerminalStep == nCalls' = nCalls + 1 /\ ret'.op \in Terminals

---------------------------------------------------------------------------
(* Claims *)

(* C1: for Where, Having and SQL, when a fragment with k markers is passed *)
(* with exactly k values on a builder that holds c parameters, the stored  *)
(* fragment is the fragment with its markers replaced, left to right, by   *)
(* $(c+1) ... $(c+k) (after the keyword "HAVING " in the having text), and *)
(* the k values are appended to the parameters in the order given, the     *)
(* parameters already there unchanged.                                     *)
C1_ExactRewrite ==
  [][/\ Step("Where")
          => \A f \in WhereFrags, a \in ArgLists :
               Markers(f) = Len(a) /\ Where(f, a)
                 => /\ Str(where') = Numbered(f, Len(params))
                    /\ params' = params \o a
     /\ Step("Having")
          => \A f \in HavingFrags, a \in ArgLists :
               Markers(f) = Len(a) /\ Having(f, a)
                 => /\ Str(having') = "HAVING " \o Numbered(f, Len(params))
                    /\ params' = params \o a
     /\ Step("SQL")
          => \A f \in SQLTexts, a \in ArgLists :
               Markers(f) = Len(a) /\ SQL(f, a)
                 => /\ Str(sql') = Numbered(f, Len(params))
                    /\ params' = params \o a]_vars

\* two markers rewritten on a builder that held two parameters
C1_Witness ==
  /\ ret.op = "Where"
  /\ Str(where) = "a=$3 AND b=$4"
  /\ params = <<"jv", "jv@example.com", "18", "jv">>

(* C2: placeholder numbering stays consistent on one builder: after any    *)
(* sequence of configuration calls in which each fragment got exactly one  *)
(* value per marker, every $N of the current filter, having or raw text    *)
(* has 1 <= N <= Len(params), and params[N] is the value supplied for that *)
(* marker.                                                                 *)
Bound(text, values) ==
  /\ Len(Refs(text)) = Len(values)
  /\ \A i \in DOMAIN values :
       /\ Refs(text)[i] \in 1..Len(params)
       /\ params[Refs(text)[i]] = values[i]

C2_NumberingConsistent ==
  supplied.exact
    => /\ Bound(where, supplied.where)
       /\ Bound(having, supplied.having)
       /\ Bound(IF isManualSQL THEN sql ELSE <<>>, supplied.sql)

\* the last call was a terminal call that assembled a statement of action act
Assembled(act) ==
  /\ ret.op \in Terminals
  /\ ~isManualSQL
  /\ action = act
  /\ ret.err \notin {ErrUnknownAction, ErrTooManyArgs}

\* text begins with the string str
HasPrefix(text, str) == \E k \in 0..Len(text) : Str(SubSeq(text, 1, k)) = str

UnknownAction ==
  action \notin {selectAction, insertAction, updateAction, deleteAction}

\* the error of the assembly a terminal call would start with
AssemblyError ==
  IF isManualSQL THEN NoErr
  ELSE IF UnknownAction THEN ErrUnknownAction
  ELSE IF action = updateAction /\ Len(columns) > Len(params)
    THEN ErrTooManyArgs
  ELSE NoErr

(* C3: a Select statement assembled after OrderBy calls contains the       *)
(* recorded ORDER BY fragments (Select("users") ... OrderBy("u.name",      *)
(* "ASC").Limit(10) assembles to a statement that is ordered by            *)
(* u.name ASC).                                                            *)
C3_OrderByRendered ==
  Assembled(selectAction)
    => \A i \in DOMAIN orderBy : \E k \in DOMAIN sql : sql[k] = orderBy[i]

(* C4: assembling an Update on a builder with more columns than parameters *)
(* fails with ErrTooManyArgs and produces no statement text: the builder's *)
(* statement text after the failed assembly is the same as before it.      *)
C4_UpdateTooManyArgs ==
  [][TerminalStep /\ ~isManualSQL /\ action = updateAction
       /\ Len(columns) > Len(params)
       => ret'.err = ErrTooManyArgs /\ sql' = sql]_vars

(* C5: when no raw statement was supplied and the action is none of        *)
(* Select, Insert, Update, Delete, every terminal call fails with          *)
(* ErrUnknownAction and leaves the builder's statement text unchanged.     *)
C5_UnknownAction ==
  [][TerminalStep /\ ~isManualSQL /\ UnknownAction
       => ret'.err = ErrUnknownAction /\ sql' = sql]_vars

\* ExecReturnID on a builder on which no action call was made
C5_Witness ==
  /\ ret.op = "ExecReturnID"
  /\ ret.err = ErrUnknownAction
  /\ action = ""
  /\ columns # <<>>
  /\ sql = <<>>

(* C6: for each of Row, Rows, ExecReturnID and Exec: if assembly fails     *)
(* (unknown action, or too many columns for Update), the terminal call     *)
(* returns that error and makes no call on the backing connection.         *)
C6_NoRoundTrip ==
  [][TerminalStep /\ AssemblyError # NoErr
       => ret'.err = AssemblyError /\ conn' = conn]_vars

\* Exec of an Update with more columns than parameters: no call was made
C6_Witness ==
  /\ ret.op = "Exec"
  /\ action = updateAction
  /\ Len(columns) > Len(params)
  /\ ret.err = ErrTooManyArgs
  /\ conn = <<>>

(* C7: assembling a Select with an empty column list renders the column    *)
(* list as <alias>.* when an alias is set and as * when none is set; with  *)
(* a non-empty column list it renders the columns joined by ", " in the    *)
(* order given (after "SELECT\n" and one space).                           *)
RECURSIVE CommaList(_)
CommaList(cols) ==
  IF Len(cols) = 1 THEN cols[1]
  ELSE CommaList(SubSeq(cols, 1, Len(cols) - 1)) \o ", " \o cols[Len(cols)]

ColumnListText ==
  IF columns = <<>>
  THEN IF tableAlias = "" THEN "*" ELSE tableAlias \o ".*"
  ELSE " " \o CommaList(columns)

C7_SelectColumns ==
  Assembled(selectAction)
    => HasPrefix(sql, "SELECT\n" \o ColumnListText \o "\nFROM ")

\* a Select with an alias and no columns
C7_Witness ==
  /\ ret.op = "Rows"
  /\ action = selectAction
  /\ columns = <<>>
  /\ tableAlias = "u"
  /\ Str(sql) = "SELECT\nu.*\nFROM users AS u"

\* the map of row i of a result with columns cols: one key per column name
LastOf(cols, c) ==
  CHOOSE j \in DOMAIN cols : cols[j] = c /\ \A k \in DOMAIN cols : k > j => cols[k] # c

ExpectedRow(cols, i) ==
  [c \in {cols[j] : j \in DOMAIN cols} |-> Cell(i, LastOf(cols, c))]

(* C8: Row: when the query returns zero rows it fails with ErrNotFound;    *)
(* when it returns one or more rows it returns a map that has exactly one  *)
(* key per result column name, each mapped to the value of that column in  *)
(* the first row, and no later row is read.                                *)
C8_Row ==
  (ret.op = "Row" /\ ret.cursor # "none" /\ ~ret.db.cerr)
    => /\ ret.db.n = 0 => ret.err = ErrNotFound /\ ret.isNil
       /\ (ret.db.deliver >= 1 /\ ret.db.scanFail # 1)
            => /\ ret.err = NoErr
               /\ ~ret.isNil
               /\ ret.row = ExpectedRow(ret.db.cols, 1)
               /\ ret.fetched = 1

\* a result of two rows: the map is the first row's
C8_Witness ==
  /\ ret.op = "Row"
  /\ ret.db.n = 2
  /\ ret.db.cols = <<"id", "name">>
  /\ ret.err = NoErr
  /\ ret.row = [id |-> Cell(1, 1), name |-> Cell(1, 2)]
  /\ ret.fetched = 1

(* C9: Rows: a query returning zero rows yields an empty sequence with no  *)
(* error; a query returning n rows yields a sequence of n maps in cursor   *)
(* order, the i-th map holding the column values of the i-th row.          *)
C9_Rows ==
  (ret.op = "Rows" /\ ret.cursor # "none" /\ ~ret.db.cerr
     /\ ret.db.deliver = ret.db.n /\ ret.db.scanFail = 0)
    => /\ ret.err = NoErr
       /\ ~ret.isNil
       /\ Len(ret.rows) = ret.db.n
       /\ \A i \in 1..ret.db.n : ret.rows[i] = ExpectedRow(ret.db.cols, i)

\* a result of two rows, both in the sequence, in cursor order
C9_Witness ==
  /\ ret.op = "Rows"
  /\ ret.db.n = 2
  /\ ret.err = NoErr
  /\ ret.rows = <<[id |-> Cell(1, 1), name |-> Cell(1, 2)],
                  [id |-> Cell(2, 1), name |-> Cell(2, 2)]>>

(* C10: in Row and Rows, whenever the connection's Query call succeeded    *)
(* and returned a cursor, that cursor has been closed by the time the      *)
(* terminal call returns, on every exit path: success, failure to read the *)
(* column names, Scan failure, and not-found.                              *)
C10_CursorClosed ==
  (ret.op \in {"Row", "Rows"} /\ ret.cursor # "none") => ret.cursor = "closed"

(***************************************************************************)
(* C11.                                                                    *)
(***************************************************************************)

\* the error the cursor holds when the driver ends an iteration early
ErrCursor == "driver: iteration failed"

\* the last call asked rows.Next for a row the driver failed to deliver
StoppedByDriver ==
  /\ ret.op \in {"Row", "Rows"}
  /\ ret.cursor = "closed"
  /\ ret.db.deliver < ret.db.n
  /\ ret.fetched = ret.db.deliver
  /\ ret.op = "Row" => ret.db.deliver = 0

(* C11: no error of a terminal call is swallowed: a failure of the         *)
(* connection call, of reading the column names or of a scan is returned,  *)
(* and when the driver ends the iteration early Rows returns the cursor's  *)
(* error, never a partial result with a nil error, and Row returns that    *)
(* error, never ErrNotFound.                                               *)
C11_NoErrorSwallowed ==
  /\ ret.op \in Terminals /\ (ret.db.qerr \/ ret.db.cerr) => ret.err # NoErr
  /\ ret.op \in {"Row", "Rows"} /\ ret.fetched >= 1
       /\ ret.db.scanFail = ret.fetched => ret.err = ErrScan
  /\ StoppedByDriver => ret.err = ErrCursor

(***************************************************************************)
(* C12.                                                                    *)
(***************************************************************************)

\* the value v itself as a call returns it, not a pointer to it
Direct(v) == [ptr |-> FALSE, val |-> v]

\* the last call was an ExecReturnID that assembled its statement and ran
ReturnedID ==
  /\ ret.op = "ExecReturnID"
  /\ ~isManualSQL
  /\ ret.err = NoErr

(* C12: an ExecReturnID(col) that succeeds on an assembled statement has   *)
(* sent the assembled statement followed by one "RETURNING col" with the   *)
(* builder's parameters, and returns the single value of the resulting row *)
(* itself; for an Insert into users of the columns name, email with the    *)
(* parameters "jv", "jv@example.com" the statement sent is the INSERT with *)
(* the tuple ($1, $2) followed by RETURNING id.                            *)
C12_ExecReturnID ==
  ReturnedID =>
    /\ conn[Len(conn)] =
         [fn |-> "QueryRow", sql |-> Str(buildQuery.sql) \o "\nRETURNING id",
          args |-> params]
    /\ ret.id = Direct(Cell(1, 1))
    /\ action = insertAction /\ tableAlias = ""
         /\ columns = <<"name", "email">> /\ params = <<"jv", "jv@example.com">>
       => conn[Len(conn)].sql =
            "INSERT INTO users\n(name, email)\nVALUES\n($1, $2)\nRETURNING id"

(***************************************************************************)
(* C13.                                                                    *)
(***************************************************************************)

\* the connection function a terminal call uses
ConnFn(op) ==
  CASE op \in {"Row", "Rows"} -> "Query"
    [] op = "ExecReturnID" -> "QueryRow"
    [] op = "Exec" -> "Exec"

\* the last call was a Row, Rows or Exec on a builder that SQL was called on
RanManual == isManualSQL /\ ret.op \in {"Row", "Rows", "Exec"}

(* C13: once SQL was called on the builder, a Row, Rows or Exec has sent   *)
(* exactly the raw text as SQL rewrote it, with the builder's parameters,  *)
(* whatever was configured before or after, and has not failed with        *)
(* ErrUnknownAction or ErrTooManyArgs.                                     *)
C13_ManualSent ==
  RanManual =>
    /\ conn # <<>>
    /\ conn[Len(conn)] =
         [fn |-> ConnFn(ret.op), sql |-> Str(supplied.raw), args |-> params]
    /\ ret.err \notin {ErrUnknownAction, ErrTooManyArgs}

(***************************************************************************)
(* C14.                                                                    *)
(***************************************************************************)

\* the names of cols, each behind "alias." when the builder has an alias
Qualified(cols) ==
  [i \in DOMAIN cols |->
     IF tableAlias = "" THEN cols[i] ELSE tableAlias \o "." \o cols[i]]

Listed(items) == IF items = <<>> THEN "" ELSE CommaList(items)

\* "$1, $2, ..., $n"
RECURSIVE Placeholders(_)
Placeholders(n) ==
  IF n = 0 THEN ""
  ELSE IF n = 1 THEN "$1"
  ELSE Placeholders(n - 1) \o ", $" \o Str(Itoa(n))

AliasText == IF tableAlias = "" THEN "" ELSE " AS " \o tableAlias

ExpectedInsert ==
  "INSERT INTO " \o tableName \o AliasText \o "\n"
    \o "(" \o Listed(Qualified(columns)) \o ")"
    \o "\nVALUES\n"
    \o "(" \o Placeholders(Len(params)) \o ")"

\* what ExecReturnID appends to the statement it assembled
ReturningTail == IF ret.op = "ExecReturnID" THEN "\nRETURNING id" ELSE ""

(* C14: the Insert statement is INSERT INTO and the table, AS and the      *)
(* alias when one is set, the columns in their order in parentheses, each  *)
(* behind "alias." when an alias is set, VALUES, and one tuple of the      *)
(* placeholders $1..$n for the n parameters the builder holds, whatever    *)
(* the number of columns; a terminal call that assembles an Insert never   *)
(* fails in the assembly.                                                  *)
C14_Insert ==
  /\ buildInsert.err = NoErr
  /\ Str(buildInsert.sql) = ExpectedInsert
  /\ ret.op \in Terminals /\ ~isManualSQL /\ action = insertAction
       => /\ ret.err \notin {ErrUnknownAction, ErrTooManyArgs}
          /\ Str(sql) = ExpectedInsert \o ReturningTail

\* an Insert was sent with two parameters and no column
C14_Witness ==
  /\ ret.op = "Exec"
  /\ ret.err = NoErr
  /\ action = insertAction
  /\ columns = <<>>
  /\ conn[Len(conn)].sql = "INSERT INTO users\n()\nVALUES\n($1, $2)"

(***************************************************************************)
(* C15.                                                                    *)
(***************************************************************************)

\* "c1=$1,\nc2=$2, ..." for the first n of cols
RECURSIVE Pairs(_, _)
Pairs(cols, n) ==
  IF n = 0 THEN ""
  ELSE (IF n = 1 THEN "" ELSE Pairs(cols, n - 1) \o ",\n")
         \o cols[n] \o "=$" \o Str(Itoa(n))

FilterText == IF where = <<>> THEN "" ELSE "\nWHERE " \o Str(where)

ExpectedUpdate ==
  "UPDATE " \o tableName \o AliasText \o "\nSET\n"
    \o Pairs(Qualified(columns), Len(columns))
    \o FilterText

(* C15: when the builder holds no more columns than parameters, the Update *)
(* statement is UPDATE and the table (AS and the alias when set), SET, and *)
(* one pair per column in the columns' order, the i-th as "column=$i"      *)
(* (behind "alias." when an alias is set), then WHERE and the filter only  *)
(* when the filter is not empty, and assembling it does not fail; when a   *)
(* Where with one value per marker is called on a builder holding n        *)
(* columns and n parameters, the filter's markers are numbered n+1..n+k    *)
(* and the parameters are the n values followed by the k filter values.    *)
C15_Update ==
  /\ Len(columns) <= Len(params)
       => /\ buildUpdate.err = NoErr
          /\ Str(buildUpdate.sql) = ExpectedUpdate
  /\ ret.op \in Terminals /\ ~isManualSQL /\ action = updateAction
       /\ Len(columns) <= Len(params)
       => /\ ret.err \notin {ErrUnknownAction, ErrTooManyArgs}
          /\ Str(sql) = ExpectedUpdate \o ReturningTail
          /\ conn[Len(conn)].sql = Str(sql)
  /\ ret.op = "Where" /\ supplied.exact
       /\ Len(params) = Len(columns) + Len(supplied.where)
       => /\ Refs(where) = [i \in DOMAIN supplied.where |-> Len(columns) + i]
          /\ \A i \in DOMAIN supplied.where :
               params[Len(columns) + i] = supplied.where[i]

\* the documented chain, then Exec
C15_Witness ==
  /\ ret.op = "Exec"
  /\ ret.err = NoErr
  /\ conn[Len(conn)] =
       [fn |-> "Exec",
        sql |-> "UPDATE users\nSET\nname=$1,\nemail=$2\nWHERE age > $3",
        args |-> <<"jv", "jv@example.com", "18">>]

(***************************************************************************)
(* C16.                                                                    *)
(***************************************************************************)

(* C16: after ColsWithParams(m), whatever configuration calls came before  *)
(* it, every key k of m is a column of the builder, and the parameter at   *)
(* that column's position, the one its placeholder in the assembled Insert *)
(* or Update stands for, is m[k].                                          *)
C16_ColsWithParams ==
  [][Step("ColsWithParams")
       => \A m \in ColMaps : \A o \in KeyOrders(m) :
            ColsWithParams(m, o)
              => \A k \in DOMAIN m :
                   \E i \in DOMAIN columns' :
                     /\ columns'[i] = k
                     /\ i <= Len(params')
                     /\ params'[i] = m[k]]_vars

(***************************************************************************)
(* C17.                                                                    *)
(***************************************************************************)

(* C17: a terminal call whose assembly succeeds makes exactly one call on  *)
(* the connection, whether or not that call fails: Query for Row and Rows, *)
(* QueryRow for ExecReturnID, Exec for Exec; the calls made before stay as *)
(* they were and no other call of the builder touches the connection, so k *)
(* terminal calls make k connection calls.                                 *)
C17_OneConnCall ==
  [][/\ TerminalStep /\ AssemblyError = NoErr
          => /\ Len(conn') = Len(conn) + 1
             /\ SubSeq(conn', 1, Len(conn)) = conn
             /\ conn'[Len(conn')].fn = ConnFn(ret'.op)
     /\ ~TerminalStep => conn' = conn]_vars

\* two terminal calls, the second with a failing db.Query: two calls made
C17_Witness ==
  /\ nCalls = 3
  /\ ret.op = "Rows"
  /\ ret.err = ErrQuery
  /\ Len(conn) = 2
  /\ conn[1].fn = "Query"
  /\ conn[2].fn = "Query"

(***************************************************************************)
(* C18.                                                                    *)
(***************************************************************************)

\* the action a call of Select, Insert, Update or Delete sets
ActionOf(op) ==
  CASE op = "Select" -> selectAction
    [] op = "Insert" -> insertAction
    [] op = "Update" -> updateAction
    [] op = "Delete" -> deleteAction

(* C18: a configuration call returns the builder and no error, and changes *)
(* only its own fields: Select, Insert, Update and Delete set the action   *)
(* and the table, whatever they were, and leave columns, parameters,       *)
(* filter, having, joins, group-by, limit, offset and raw text alone;      *)
(* Alias, Limit and Offset change only the alias, the limit and the        *)
(* offset; Join, InnerJoin, LeftJoin and RightJoin only add one clause to  *)
(* the join list.                                                          *)
C18_Frame ==
  [][/\ nCalls' = nCalls + 1 /\ ret'.op \notin Terminals
          => ret' = CfgRet(ret'.op) /\ conn' = conn
     /\ \A op \in {"Select", "Insert", "Update", "Delete"} :
          Step(op)
            => /\ action' = ActionOf(op)
               /\ tableName' \in Tables
               /\ UNCHANGED <<tableAlias, columns, params, where, having, joins,
                              orderBy, groupBy, limit, offset, sql, isManualSQL>>
     /\ Step("Alias")
          => /\ tableAlias' \in Aliases
             /\ UNCHANGED <<tableName, action, columns, params, where, having,
                            joins, orderBy, groupBy, limit, offset, sql,
                            isManualSQL>>
     /\ Step("Limit")
          => /\ limit' \in Limits
             /\ UNCHANGED <<tableName, tableAlias, action, columns, params, where,
                            having, joins, orderBy, groupBy, offset, sql,
                            isManualSQL>>
     /\ Step("Offset")
          => /\ offset' \in Offsets
             /\ UNCHANGED <<tableName, tableAlias, action, columns, params, where,
                            having, joins, orderBy, groupBy, limit, sql,
                            isManualSQL>>
     /\ \A op \in {"Join", "InnerJoin", "LeftJoin", "RightJoin"} :
          Step(op)
            => /\ Len(joins') = Len(joins) + 1
               /\ SubSeq(joins', 1, Len(joins)) = joins
               /\ UNCHANGED <<tableName, tableAlias, action, columns, params,
                              where, having, orderBy, groupBy, limit, offset, sql,
                              isManualSQL>>]_vars

\* Delete called on a builder that held an Insert's columns and parameters
C18_Witness ==
  /\ ret.op = "Delete"
  /\ action = deleteAction
  /\ tableName = "users"
  /\ columns = <<"name", "email">>
  /\ params = <<"jv", "jv@example.com">>
  /\ nCalls = 3

(***************************************************************************)
(* C19.                                                                    *)
(***************************************************************************)

\* the positions at which the callback returns false
Refusals == {i \in DOMAIN chainfunc : ~chainfunc[i]}

\* the last position the claim has ChainForEach visit
LastVisit ==
  IF Refusals = {} THEN Len(collection)
  ELSE CHOOSE i \in Refusals : \A j \in Refusals : i <= j

(* C19: ChainForEach applies the callback to the elements in index order   *)
(* and stops as soon as the callback returns false: the element it         *)
(* returned false for is the last one visited, and while it returns true   *)
(* every element is visited.                                               *)
C19_ChainForEach ==
  returned => visited = [i \in 1..LastVisit |-> <<i, collection[i]>>]

(***************************************************************************)
(* C20.                                                                    *)
(***************************************************************************)

\* the first n join clauses, each on a line of its own
RECURSIVE JoinText(_)
JoinText(n) ==
  IF n = 0 THEN "" ELSE JoinText(n - 1) \o "\n" \o joins[n] \o "\n"

GroupText == IF groupBy = "" THEN "" ELSE "\n" \o groupBy

HavingText == IF having = <<>> THEN "" ELSE "\n" \o Str(having)

OffsetText == IF offset > 0 THEN "\nOFFSET " \o Str(Itoa(offset)) ELSE ""

LimitText == IF limit > 0 THEN "\nLIMIT " \o Str(Itoa(limit)) ELSE ""

ExpectedSelect ==
  "SELECT\n" \o ColumnListText
    \o "\nFROM " \o tableName \o AliasText
    \o JoinText(Len(joins))
    \o FilterText
    \o GroupText
    \o HavingText
    \o OffsetText
    \o LimitText

(* C20: the Select statement has its parts in a fixed order, whatever the  *)
(* order of the calls: the column list, FROM and the table (AS and the     *)
(* alias when set), every join clause in the order the joins were added,   *)
(* WHERE and the filter only when the filter is not empty, the GROUP BY    *)
(* text only when set, the HAVING text only when set, OFFSET only when the *)
(* offset is above 0, and last LIMIT only when the limit is above 0.       *)
C20_SelectOrder ==
  /\ buildSelect.err = NoErr
  /\ Str(buildSelect.sql) = ExpectedSelect
  /\ Assembled(selectAction)
       => /\ Str(sql) = ExpectedSelect \o ReturningTail
          /\ conn[Len(conn)].sql = Str(sql)

\* every part set once, LIMIT before OFFSET among the calls, then Rows
C20_Witness ==
  /\ ret.op = "Rows"
  /\ ret.err = NoErr
  /\ conn[Len(conn)].sql =
       "SELECT\n*\nFROM users"
         \o "\nINNER JOIN profile AS p ON u.id=p.user_id\n"
         \o "\nWHERE age > $2"
         \o "\nGROUP BY id"
         \o "\nHAVING cnt > $1"
         \o "\nOFFSET 5"
         \o "\nLIMIT 10"

(***************************************************************************)
(* C21.                                                                    *)
(***************************************************************************)

\* frag with its first k markers written as $(c+1) .. $(c+k), the others kept
NumberedFirst(frag, c, k) ==
  Str([i \in DOMAIN frag |->
         IF frag[i] = "?" /\ MarkersUpTo(frag, i) <= k
         THEN "$" \o Str(Itoa(c + MarkersUpTo(frag, i)))
         ELSE frag[i]])

(* C21: for Where, Having and SQL, when a fragment with m markers is       *)
(* passed with k < m values on a builder that holds c parameters, the      *)
(* stored fragment has its first k markers rewritten to $(c+1) .. $(c+k)   *)
(* and its last m-k markers kept as "?", and exactly the k values are      *)
(* appended to the parameters; with no value the fragment is stored as     *)
(* passed and the parameters stay as they were.                            *)
C21_UnderSupply ==
  [][/\ Step("Where")
          => \A f \in WhereFrags, a \in ArgLists :
               Len(a) < Markers(f) /\ Where(f, a)
                 => /\ Str(where') = NumberedFirst(f, Len(params), Len(a))
                    /\ Markers(where') = Markers(f) - Len(a)
                    /\ params' = params \o a
                    /\ a = <<>> => where' = f /\ params' = params
     /\ Step("Having")
          => \A f \in HavingFrags, a \in ArgLists :
               Len(a) < Markers(f) /\ Having(f, a)
                 => /\ Str(having')
                         = "HAVING " \o NumberedFirst(f, Len(params), Len(a))
                    /\ Markers(having') = Markers(f) - Len(a)
                    /\ params' = params \o a
                    /\ a = <<>> => having' = <<"HAVING ">> \o f /\ params' = params
     /\ Step("SQL")
          => \A f \in SQLTexts, a \in ArgLists :
               Len(a) < Markers(f) /\ SQL(f, a)
                 => /\ Str(sql') = NumberedFirst(f, Len(params), Len(a))
                    /\ Markers(sql') = Markers(f) - Len(a)
                    /\ params' = params \o a
                    /\ a = <<>> => sql' = f /\ params' = params]_vars

\* two markers and one value on a builder that held one parameter
C21_Witness ==
  /\ ret.op = "Where"
  /\ Str(where) = "a=$2 AND b=?"
  /\ params = <<"jv", "18">>

(***************************************************************************)
(* C22.                                                                    *)
(***************************************************************************)

\* the current filter was passed with more values than it had markers
OverSupplied == Len(supplied.where) > Len(Refs(where)) + Markers(where)

(* C22: for Where, Having and SQL, a fragment with m markers passed with   *)
(* k > m values has all its markers rewritten and all k values appended to *)
(* the parameters, and the call returns no error; a terminal call on a     *)
(* builder whose filter was passed so fails in the assembly only as it     *)
(* would have otherwise, and when the assembly succeeds it calls the       *)
(* connection with all the parameters, the surplus ones included.          *)
C22_OverSupply ==
  [][/\ Step("Where")
          => \A f \in WhereFrags, a \in ArgLists :
               Len(a) > Markers(f) /\ Where(f, a)
                 => /\ Str(where') = Numbered(f, Len(params))
                    /\ params' = params \o a
                    /\ ret'.err = NoErr
     /\ Step("Having")
          => \A f \in HavingFrags, a \in ArgLists :
               Len(a) > Markers(f) /\ Having(f, a)
                 => /\ Str(having') = "HAVING " \o Numbered(f, Len(params))
                    /\ params' = params \o a
                    /\ ret'.err = NoErr
     /\ Step("SQL")
          => \A f \in SQLTexts, a \in ArgLists :
               Len(a) > Markers(f) /\ SQL(f, a)
                 => /\ Str(sql') = Numbered(f, Len(params))
                    /\ params' = params \o a
                    /\ ret'.err = NoErr
     /\ TerminalStep /\ OverSupplied
          => IF AssemblyError # NoErr
             THEN ret'.err = AssemblyError
             ELSE /\ Len(conn') = Len(conn) + 1
                  /\ conn'[Len(conn')].args = params]_vars

\* a filter with one marker and two values, then Rows: both values sent
C22_Witness ==
  /\ ret.op = "Rows"
  /\ ret.err = NoErr
  /\ conn[Len(conn)].sql = "SELECT\n*\nFROM users\nWHERE age > $1"
  /\ conn[Len(conn)].args = <<"18", "jv">>

(***************************************************************************)
(* C23.                                                                    *)
(***************************************************************************)

(* C23: GroupBy, Where, Having, Columns and Parameters replace what an     *)
(* earlier call of the same operation stored; OrderBy, the join calls and  *)
(* ColsWithParams add to what is stored; a Where or Having that replaces   *)
(* the text leaves the values of the earlier calls in the parameters and   *)
(* puts its own behind them.                                               *)
C23_ReplaceOrAppend ==
  [][/\ Step("GroupBy")
          => \A g \in GroupLists :
               GroupBy(g) => groupBy' = "GROUP BY " \o Listed(g)
     /\ Step("Where")
          => \A f \in WhereFrags, a \in ArgLists :
               Where(f, a)
                 => /\ Str(where') = NumberedFirst(f, Len(params), Len(a))
                    /\ params' = params \o a
     /\ Step("Having")
          => \A f \in HavingFrags, a \in ArgLists :
               Having(f, a)
                 => /\ Str(having')
                         = "HAVING " \o NumberedFirst(f, Len(params), Len(a))
                    /\ params' = params \o a
     /\ Step("Columns")
          => \A c \in ColumnLists : Columns(c) => columns' = c
     /\ Step("Parameters")
          => \A p \in ParamLists : Parameters(p) => params' = p
     /\ Step("OrderBy")
          => /\ Len(orderBy') = Len(orderBy) + 1
             /\ SubSeq(orderBy', 1, Len(orderBy)) = orderBy
     /\ \A op \in {"Join", "InnerJoin", "LeftJoin", "RightJoin"} :
          Step(op)
            => /\ Len(joins') = Len(joins) + 1
               /\ SubSeq(joins', 1, Len(joins)) = joins
     /\ Step("ColsWithParams")
          => \A m \in ColMaps : \A o \in KeyOrders(m) :
               ColsWithParams(m, o)
                 => /\ Len(columns') = Len(columns) + Cardinality(DOMAIN m)
                    /\ SubSeq(columns', 1, Len(columns)) = columns
                    /\ Len(params') = Len(params) + Cardinality(DOMAIN m)
                    /\ SubSeq(params', 1, Len(params)) = params]_vars

\* a Where with two values, then a Where with one that replaced its text
C23_Witness ==
  /\ ret.op = "Where"
  /\ Str(where) = "age > $3"
  /\ params = <<"18", "jv", "18">>

(***************************************************************************)
(* C24.                                                                    *)
(***************************************************************************)

\* the clause of a join of the given kind: "INNER JOIN profile AS p ON ..."
JoinClause(kind, table, alias, condition) ==
  kind \o " JOIN " \o table \o " AS " \o alias \o " ON " \o condition

(* C24: Join is the general form of the specific join calls: for the same  *)
(* table, alias and condition InnerJoin, LeftJoin and RightJoin add the    *)
(* INNER, LEFT and RIGHT join clause, and Join("INNER", ..),               *)
(* Join("LEFT", ..) and Join("RIGHT", ..) add that same clause, so that    *)
(* the Select statements assembled with either are the same.               *)
C24_JoinGeneralForm ==
  [][/\ Step("InnerJoin")
          => \A t \in JoinTables, a \in JoinAliases, c \in JoinConds :
               InnerJoin(t, a, c)
                 => joins' = Append(joins, JoinClause("INNER", t, a, c))
     /\ Step("LeftJoin")
          => \A t \in JoinTables, a \in JoinAliases, c \in JoinConds :
               LeftJoin(t, a, c)
                 => joins' = Append(joins, JoinClause("LEFT", t, a, c))
     /\ Step("RightJoin")
          => \A t \in JoinTables, a \in JoinAliases, c \in JoinConds :
               RightJoin(t, a, c)
                 => joins' = Append(joins, JoinClause("RIGHT", t, a, c))
     /\ Step("Join")
          => \A k \in JoinKinds, t \in JoinTables, a \in JoinAliases,
                c \in JoinConds :
               Join(k, t, a, c)
                 => joins' = Append(joins, JoinClause(k, t, a, c))]_vars

(***************************************************************************)
(* C25.                                                                    *)
(***************************************************************************)

(* C25: a terminal call repeated with no configuration call in between,    *)
(* after a first call whose assembly succeeded, calls the connection once  *)
(* more with the same function, the same statement text and the same       *)
(* parameters as the first; this for Row, Rows, Exec and ExecReturnID, on  *)
(* assembled statements and on raw ones.                                   *)
C25_RepeatSendsSame ==
  [][TerminalStep /\ ret.op = ret'.op
       /\ ret.err \notin {ErrUnknownAction, ErrTooManyArgs}
       => /\ Len(conn') = Len(conn) + 1
          /\ conn'[Len(conn')] = conn[Len(conn)]]_vars

(***************************************************************************)
(* C26.                                                                    *)
(***************************************************************************)

\* the callback was invoked after the k-th call of Reset (the 0th: Start)
InvokedAfter(k) == \E i \in DOMAIN invoked : invoked[i] = k

(* C26: after Start, and after every later Reset, the callback is          *)
(* eventually invoked for the newest finish time: once Start was called    *)
(* and k calls of Reset were made, either a further Reset is made or the   *)
(* callback is invoked after the k-th; also when the k-th Reset comes      *)
(* after the callback has fired and the waiting goroutine has returned.    *)
C26_CallbackEventually ==
  \A k \in 0..MaxResets :
    (caller.pc # "new" /\ ResetsMade = k) ~> (ResetsMade > k \/ InvokedAfter(k))

(***************************************************************************)
(* C27.                                                                    *)
(***************************************************************************)

\* Start and at most one Reset were called, every finish time in the future
StartThenReset == times \in {<<"future">>, <<"future", "future">>}

\* the goroutines that wait on a timer's channel
Waiting == {g \in DOMAIN routines : routines[g].pc = "recv"}

(* C27: for one Start followed by one Reset, both finish times in the      *)
(* future, in every interleaving of the goroutine of Start with the call   *)
(* of Reset: the callback is invoked exactly once, at most one goroutine   *)
(* waits on a timer at any moment, and no goroutine waits forever.         *)
C27_StartResetInterleaved ==
  /\ [](StartThenReset => Len(invoked) <= 1 /\ Cardinality(Waiting) <= 1)
  /\ (times = <<"future", "future">>) ~> (~StartThenReset \/ Len(invoked) = 1)
  /\ \A g \in Routines :
       (StartThenReset /\ g \in Waiting) ~> (~StartThenReset \/ g \notin Waiting)

====
